---- MODULE Spec2Model ----
(***************************************************************************)
(* Payflow gateway client: paypal/gateway.py (transport and codec) and     *)
(* paypal/payflow/gateway.py (transaction builders, validation, result).   *)
(*                                                                         *)
(* Text is modelled as a sequence of symbols.  A symbol is either one of   *)
(* the characters the codec treats specially ("&", "=", ";", "+", "%",     *)
(* " ", the hex digit "4") or an atom standing for a run of ordinary       *)
(* characters ("ORD1", "AMT", "a").  Atoms never follow a "%" in the       *)
(* inputs of the model, so percent-decoding never has to look inside one.  *)
(* Python's None is the one-symbol text <<"None">>, which is also what     *)
(* '%s' renders it as.                                                     *)
(***************************************************************************)
EXTENDS Integers, Sequences, FiniteSets, TLC

\* ------------------------------------------------------------------ bounds
\* longest value text drawn for the codec round trip
MaxValLen == 3
\* most key=value pairs in a response body drawn for decoding
MaxPieces == 3
\* longest time, in clock ticks, one requests.post call may take
MaxDelay == 2

\* --------------------------------------------------------------- constants
None == <<"None">>
Empty == <<>>
\* requests.codes.ok
HttpOk == 200
\* as with one attempt more
NumTries_m == 3 + 1

\* num_tries = 3
NumTries == 3

\* significand bits of the float that '%.2f' formats
DoubleBits == 52

\* codes.AUTHORIZATION, SALE, DELAYED_CAPTURE, CREDIT, VOID, BANKCARD
AUTHORIZATION == <<"AUTHORIZATION">>
SALE == <<"SALE">>
DELAYED_CAPTURE == <<"DELAYED_CAPTURE">>
CREDIT == <<"CREDIT">>
VOID == <<"VOID">>
BANKCARD == <<"BANKCARD">>
Kinds == {AUTHORIZATION, SALE, DELAYED_CAPTURE, CREDIT, VOID}

\* -------------------------------------------------------------- text tools
RECURSIVE Split(_, _)
\* s.split(sep) for every sep in seps: the pieces between separators
Split(s, seps) ==
  IF \A i \in DOMAIN s : s[i] \notin seps THEN <<s>>
  ELSE LET i == CHOOSE j \in DOMAIN s :
                   s[j] \in seps /\ \A h \in 1..(j - 1) : s[h] \notin seps
       IN <<SubSeq(s, 1, i - 1)>> \o Split(SubSeq(s, i + 1, Len(s)), seps)

\* s.split('=', 1)
SplitOnce(s) ==
  IF \A i \in DOMAIN s : s[i] # "=" THEN <<s>>
  ELSE LET i == CHOOSE j \in DOMAIN s :
                   s[j] = "=" /\ \A h \in 1..(j - 1) : s[h] # "="
       IN <<SubSeq(s, 1, i - 1), SubSeq(s, i + 1, Len(s))>>

\* s.replace('+', ' ')
PlusToSpace(s) == [i \in DOMAIN s |-> IF s[i] = "+" THEN " " ELSE s[i]]

HexDigits == {"4"}
\* _hextochr: '44' is 'D'
HexToChr(a, b) == "D"

RECURSIVE Unquote(_)
\* urllib.unquote: %XX becomes the character, any other % stays
Unquote(s) ==
  IF s = <<>> THEN <<>>
  ELSE IF s[1] = "%" /\ Len(s) >= 3 /\ s[2] \in HexDigits /\ s[3] \in HexDigits
       THEN <<HexToChr(s[2], s[3])>> \o Unquote(SubSeq(s, 4, Len(s)))
       ELSE <<s[1]>> \o Unquote(Tail(s))

\* ------------------------------------------------------------------- codec
RECURSIVE EncodeItems(_)
\* '&'.join(['%s=%s' % (key, val) for (key, val) in params.items()])
EncodeItems(items) ==
  IF items = <<>> THEN <<>>
  ELSE items[1][1] \o <<"=">> \o items[1][2]
       \o (IF Len(items) > 1 THEN <<"&">> ELSE <<>>)
       \o EncodeItems(Tail(items))

\* as with keep_blank_values set
KeepsPair_m(nv) == Len(nv) = 2

\* parse_qsl keeps a pair only when its value is not blank
KeepsPair(nv) == Len(nv) = 2 /\ Len(nv[2]) > 0

RECURSIVE ParsePieces(_)
ParsePieces(pieces) ==
  IF pieces = <<>> THEN <<>>
  ELSE LET nv == SplitOnce(Head(pieces))
       IN (IF Head(pieces) # <<>> /\ KeepsPair(nv)
           THEN << <<Unquote(PlusToSpace(nv[1])), Unquote(PlusToSpace(nv[2]))>> >>
           ELSE <<>>)
          \o ParsePieces(Tail(pieces))

\* urlparse.parse_qsl(qs): the (name, value) pairs of the body, in order
ParseQsl(qs) == ParsePieces(Split(qs, {"&", ";"}))

\* as with the last value kept
PickValue_m(values) == values[Len(values)]

\* which of the values parse_qs collected for one key is kept
PickValue(values) == values[1]

\* pairs[key] = values[0] for key, values in urlparse.parse_qs(content).items()
Decode(content) ==
  LET items == ParseQsl(content)
      ValuesOf(k) == SelectSeq(items, LAMBDA it : it[1] = k)
  IN [k \in {items[i][1] : i \in DOMAIN items} |-> PickValue(ValuesOf(k))[2]]

\* ------------------------------------------------------- amount formatting
\* Amounts are written in thousandths: 10005 is the caller's 10.005.

RECURSIVE UpShift(_, _)
UpShift(n, j) == IF n * 2^j >= 1000 THEN j ELSE UpShift(n, j + 1)

RECURSIVE DownShift(_, _)
DownShift(n, k) == IF 1000 * 2^(k + 1) > n THEN k ELSE DownShift(n, k + 1)

\* the binary exponent of n/1000 as a float: 2^k <= n/1000 < 2^(k+1)
FloatExponent(n) == IF n >= 1000 THEN DownShift(n, 0) ELSE 0 - UpShift(n, 0)

RECURSIVE Pow2Mod(_, _)
Pow2Mod(e, m) == IF e = 0 THEN 1 ELSE (2 * Pow2Mod(e - 1, m)) % m

\* How the float nearest to n/1000 compares with n/1000 itself: the
\* significand is n * 2^e / 1000 rounded to an integer (ties to even), so
\* the remainder of n * 2^e modulo 1000 tells the direction of the error.
FloatError(n) ==
  LET e == DoubleBits - FloatExponent(n)
      r2 == ((n % 2000) * Pow2Mod(e, 2000)) % 2000
      r == r2 % 1000
  IN IF r = 0 THEN "exact"
     ELSE IF r < 500 THEN "below"
     ELSE IF r > 500 THEN "above"
     ELSE IF r2 >= 1000 THEN "above" ELSE "below"

\* as with the thousandths cut off
Cents_m(n) == n \div 10

\* the hundredths '%.2f' prints for the float nearest to n/1000: correctly
\* rounded from the float's exact binary value, exact ties to even
Cents(n) ==
  LET base == n \div 10
      rem == n % 10
  IN IF n = 0 THEN 0
     ELSE IF rem < 5 THEN base
     ELSE IF rem > 5 THEN base + 1
     ELSE IF FloatError(n) = "below" THEN base
     ELSE IF FloatError(n) = "above" THEN base + 1
     ELSE IF base % 2 = 0 THEN base ELSE base + 1

\* "%.2f" % amt
FormatAmt(n) ==
  LET c == Cents(n)
  IN <<ToString(c \div 100), ".", ToString((c % 100) \div 10), ToString(c % 10)>>

\* ------------------------------------------------------------------- state
VARIABLES
  settings,         \* django.conf.settings: the configured defaults
  pc,               \* where the invocation stands
  op,               \* the function the caller invoked
  args,             \* its positional arguments
  kwargs,           \* its keyword arguments
  extra_params,     \* the params dict the operation builds
  settings_params,  \* the dict _settings_params returns
  params,           \* the merged dict _transaction posts
  url,              \* the endpoint _transaction chose
  payload,          \* post: the encoded request
  start_time,       \* post: time.time() before the loop
  num_tries,        \* post: attempts left
  response,         \* post: what requests.post returned
  pairs,            \* what post returned to _transaction
  err,              \* the exception that reached the caller
  log,              \* what the loggers were handed, in order
  captured,         \* calls of raven's client.captureException
  posts,            \* the calls of requests.post, in order
  excs,             \* exceptions requests.post raised
  records,          \* the PayflowTransaction table
  now,              \* the clock time.time() reads
  cpc,              \* codec round trip: where it stands
  cfields,          \* codec round trip: the field set, as (key, value) items
  cpayload,         \* codec round trip: the encoded field set
  cdecoded,         \* codec round trip: the decoded payload
  frames,           \* concurrent calls of post: the local variables of each
  callers           \* concurrent calls of post: where each caller stands

vars == <<settings, pc, op, args, kwargs, extra_params, settings_params,
          params, url, payload, start_time, num_tries, response, pairs, err,
          log, captured, posts, excs, records, now,
          cpc, cfields, cpayload, cdecoded, frames, callers>>

callVars == <<settings, pc, op, args, kwargs, extra_params, settings_params,
              params, url, payload, start_time, num_tries, response, pairs,
              err, log, captured, posts, excs, records, now>>

codecVars == <<cpc, cfields, cpayload, cdecoded>>

concVars == <<frames, callers>>

\* a dict, a response or an exception that does not exist (yet)
NoDict == [unset |-> TRUE]
NoPairs == [k \in {<<"unset">>} |-> <<>>]
NoResponse == [status |-> 0, content |-> <<>>]
NoErr == [type |-> "none"]
NoArgs == [order_number |-> None]
IsSet(d) == "unset" \notin DOMAIN d

\* dict.get(key, default) and dict.update(other)
Get(d, key, default) == IF key \in DOMAIN d THEN d[key] ELSE default
Update(d, other) ==
  [k \in DOMAIN d \cup DOMAIN other |-> IF k \in DOMAIN other THEN other[k] ELSE d[k]]

\* ------------------------------------------------------------------ inputs
\* no amount given: the amt=None default of delayed_capture and credit
NoAmt == -1
Amounts == {0, 1005, 10000, 10005}
OrderNumbers == {<<"ORD1">>}
PnRefs == {<<>>, <<"PN1">>}

\* what django.conf.settings may define
SettingsChoices ==
  { [PAYPAL_PAYFLOW_VENDOR_ID |-> <<"sv">>, PAYPAL_PAYFLOW_PASSWORD |-> <<"sp">>],
    [PAYPAL_PAYFLOW_VENDOR_ID |-> <<"sv">>, PAYPAL_PAYFLOW_PASSWORD |-> <<"sp">>,
     PAYPAL_PAYFLOW_USER |-> <<"su">>, PAYPAL_PAYFLOW_PARTNER |-> <<"sn">>,
     PAYPAL_PAYFLOW_CURRENCY |-> <<"GBP">>, PAYPAL_PAYFLOW_PRODUCTION_MODE |-> TRUE],
    [PAYPAL_PAYFLOW_VENDOR_ID |-> <<"sv">>, PAYPAL_PAYFLOW_PASSWORD |-> <<>>],
    [PAYPAL_PAYFLOW_PASSWORD |-> <<"sp">>, PAYPAL_PAYFLOW_CURRENCY |-> <<"GBP">>] }

\* the keyword arguments a caller may pass
KwargsChoices ==
  { [comment2 |-> <<>>],
    [paypal_payflow_vendor_id |-> <<"kv">>, first_name |-> <<"Ann">>],
    [paypal_payflow_vendor_id |-> <<>>, firstname |-> <<"Bob">>],
    [paypal_payflow_password |-> <<"kp">>, paypal_payflow_user |-> <<"ku">>,
     paypal_payflow_production_mode |-> TRUE],
    [paypal_payflow_vendor_id |-> <<"kv">>, paypal_payflow_password |-> <<"kp">>,
     paypal_payflow_partner |-> <<"kn">>, paypal_payflow_currency |-> <<"EUR">>,
     paypal_payflow_production_mode |-> FALSE] }

\* the bodies the gateway may answer with, and its answers: a body with the
\* success status, or an error page with another status
Bodies ==
  { <<"RESULT", "=", "0", "&", "RESPMSG", "=", "Approved", "&", "PNREF", "=", "ABC123">>,
    <<"RESULT", "=", "12", "&", "RESULT", "=", "0", "&", "PPREF", "=", "&",
      "AUTHCODE", "=", "0", "1", "0">>,
    <<>> }
Answers ==
  {[status |-> HttpOk, content |-> b] : b \in Bodies}
    \cup {[status |-> 500, content |-> <<"Server", " ", "Error">>]}

\* a record the table may already hold when the invocation starts
PriorRecord ==
  [comment1 |-> <<"ORD0">>, trxtype |-> VOID, tender |-> None, amount |-> None,
   pnref |-> <<"PN0">>, ppref |-> None, cvv2match |-> None, avsaddr |-> None,
   avszip |-> None, result |-> <<"0">>, respmsg |-> None, authcode |-> None,
   raw_request |-> <<"TRXTYPE", "=", "VOID">>, raw_response |-> <<"RESULT", "=", "0">>,
   response_time |-> 1000]

\* the arguments of each operation
CardArgs ==
  {[order_number |-> o, card_number |-> <<"4111">>, cvv |-> <<"123">>,
    expiry_date |-> <<"1225">>, amt |-> a] : o \in OrderNumbers, a \in Amounts}
OriginArgs(amts) ==
  {[order_number |-> o, pnref |-> p, amt |-> a] :
     o \in OrderNumbers, p \in PnRefs, a \in amts}
VoidArgs == {[order_number |-> o, pnref |-> p] : o \in OrderNumbers, p \in PnRefs}

\* ------------------------------------------------------- transaction builder
KwGet(key, default) == Get(kwargs, key, default)

\* _submit_payment_details: the params dict
PaymentDetailsParams(trxtype) ==
  [TRXTYPE |-> trxtype,
   TENDER |-> BANKCARD,
   AMT |-> args.amt,
   ACCT |-> args.card_number,
   CVV2 |-> args.cvv,
   EXPDATE |-> args.expiry_date,
   COMMENT1 |-> args.order_number,
   COMMENT2 |-> KwGet("comment2", Empty),
   FIRSTNAME |-> KwGet("first_name", KwGet("firstname", Empty)),
   LASTNAME |-> KwGet("last_name", KwGet("lastname", Empty)),
   STREET |-> KwGet("street", Empty),
   CITY |-> KwGet("city", Empty),
   ZIP |-> KwGet("zip", Empty),
   BILLTOCOUNTRY |-> KwGet("countrycode", Empty),
   EMAIL |-> KwGet("user_email", Empty),
   PHONENUM |-> KwGet("billing_phone_number", Empty)]
    @@ ("STATE" :> KwGet("state", Empty))

\* "if amt:" is false for None and for zero
AmtGiven(amt) == amt # NoAmt /\ amt # 0

\* delayed_capture and credit: the params dict
OriginParams(trxtype) ==
  LET base == [COMMENT1 |-> args.order_number, TRXTYPE |-> trxtype,
               ORIGID |-> args.pnref]
  IN IF AmtGiven(args.amt) THEN Update(base, [AMT |-> args.amt]) ELSE base

\* as with the kind of the original transaction's later capture
ReferenceParams_m ==
  [COMMENT1 |-> args.order_number, TRXTYPE |-> DELAYED_CAPTURE, TENDER |-> BANKCARD,
   ORIGID |-> args.pnref, AMT |-> args.amt]

\* reference_transaction: the params dict
ReferenceParams ==
  [COMMENT1 |-> args.order_number, TRXTYPE |-> SALE, TENDER |-> BANKCARD,
   ORIGID |-> args.pnref, AMT |-> args.amt]

\* void: the params dict
VoidParams ==
  [COMMENT1 |-> args.order_number, TRXTYPE |-> VOID, ORIGID |-> args.pnref]

BuiltParams ==
  CASE op = "authorize" -> PaymentDetailsParams(AUTHORIZATION)
    [] op = "sale" -> PaymentDetailsParams(SALE)
    [] op = "delayed_capture" -> OriginParams(DELAYED_CAPTURE)
    [] op = "reference_transaction" -> ReferenceParams
    [] op = "credit" -> OriginParams(CREDIT)
    [] op = "void" -> VoidParams

\* ----------------------------------------------------------- configuration
SettingNames ==
  <<"PAYPAL_PAYFLOW_VENDOR_ID", "PAYPAL_PAYFLOW_PASSWORD", "PAYPAL_PAYFLOW_USER",
    "PAYPAL_PAYFLOW_PARTNER", "PAYPAL_PAYFLOW_CURRENCY",
    "PAYPAL_PAYFLOW_PRODUCTION_MODE">>

\* name.lower()
Lower(name) ==
  CASE name = "PAYPAL_PAYFLOW_VENDOR_ID" -> "paypal_payflow_vendor_id"
    [] name = "PAYPAL_PAYFLOW_PASSWORD" -> "paypal_payflow_password"
    [] name = "PAYPAL_PAYFLOW_USER" -> "paypal_payflow_user"
    [] name = "PAYPAL_PAYFLOW_PARTNER" -> "paypal_payflow_partner"
    [] name = "PAYPAL_PAYFLOW_CURRENCY" -> "paypal_payflow_currency"
    [] name = "PAYPAL_PAYFLOW_PRODUCTION_MODE" -> "paypal_payflow_production_mode"

\* as with the configured setting looked up before the keyword argument
GetSetting_m(setting_dict, name, default) ==
  Get(settings, name, Get(setting_dict, Lower(name), default))

\* _get_setting: the keyword argument if passed, else the configured
\* setting, else the default
GetSetting(setting_dict, name, default) ==
  Get(setting_dict, Lower(name), Get(settings, name, default))

\* the dict _settings_params assembles
ResolvedSettings ==
  [PAYPAL_PAYFLOW_VENDOR_ID |-> GetSetting(kwargs, "PAYPAL_PAYFLOW_VENDOR_ID", None),
   PAYPAL_PAYFLOW_PASSWORD |-> GetSetting(kwargs, "PAYPAL_PAYFLOW_PASSWORD", None),
   PAYPAL_PAYFLOW_USER |->
     GetSetting(kwargs, "PAYPAL_PAYFLOW_USER",
                GetSetting(kwargs, "PAYPAL_PAYFLOW_VENDOR_ID", None)),
   PAYPAL_PAYFLOW_PARTNER |-> GetSetting(kwargs, "PAYPAL_PAYFLOW_PARTNER", <<"PayPal">>),
   PAYPAL_PAYFLOW_CURRENCY |-> GetSetting(kwargs, "PAYPAL_PAYFLOW_CURRENCY", <<"USD">>),
   PAYPAL_PAYFLOW_PRODUCTION_MODE |->
     GetSetting(kwargs, "PAYPAL_PAYFLOW_PRODUCTION_MODE", FALSE)]

\* as with the password left unchecked
RequiredSettings_m == <<"PAYPAL_PAYFLOW_VENDOR_ID">>

\* the settings that must be defined
RequiredSettings == <<"PAYPAL_PAYFLOW_VENDOR_ID", "PAYPAL_PAYFLOW_PASSWORD">>

\* as with "settings_params.get(setting) is None"
IsDefined_m(value) == value # None

\* "not settings_params.get(setting)": None and the empty text are false
IsDefined(value) == value # None /\ value # Empty

\* --------------------------------------------------------------- validator
\* as with EXPDATE left out of the AUTHORIZATION row
Constraints_m(trxtype) ==
  CASE trxtype = AUTHORIZATION -> <<"ACCT", "AMT">>
    [] trxtype = SALE -> <<"AMT">>
    [] trxtype = DELAYED_CAPTURE -> <<"ORIGID">>
    [] trxtype = CREDIT -> <<"ORIGID">>
    [] trxtype = VOID -> <<"ORIGID">>

\* the constraints table of _transaction
Constraints(trxtype) ==
  CASE trxtype = AUTHORIZATION -> <<"ACCT", "AMT", "EXPDATE">>
    [] trxtype = SALE -> <<"AMT">>
    [] trxtype = DELAYED_CAPTURE -> <<"ORIGID">>
    [] trxtype = CREDIT -> <<"ORIGID">>
    [] trxtype = VOID -> <<"ORIGID">>

\* "key not in extra_params" decides whether a field is missing
IsSupplied(key, fields) == key \in DOMAIN fields

\* the mandatory fields the field set lacks, in the order they are checked
MissingKeys(fields) ==
  SelectSeq(Constraints(fields.TRXTYPE), LAMBDA key : ~IsSupplied(key, fields))

Mandatory(trxtype) == {Constraints(trxtype)[i] : i \in DOMAIN Constraints(trxtype)}

\* the value a directly supplied field carries
FieldValue(kind, key) ==
  CASE key = "TRXTYPE" -> kind
    [] key = "AMT" -> 10000
    [] key = "ACCT" -> <<"4111">>
    [] key = "EXPDATE" -> <<"1225">>
    [] key = "ORIGID" -> <<"PN1">>
    [] key = "COMMENT1" -> <<"ORD1">>

\* field sets handed to _transaction directly: for each kind its mandatory
\* fields, or all of them but one, with or without the order reference;
\* and one field set that names no kind
DirectFieldSets ==
  UNION { { [key \in ({"TRXTYPE"} \cup (Mandatory(kind) \ drop) \cup extra) |->
               FieldValue(kind, key)] :
              drop \in {{}} \cup {{m} : m \in Mandatory(kind)},
              extra \in {{}, {"COMMENT1"}} } : kind \in Kinds }
    \cup {[COMMENT1 |-> <<"ORD1">>]}

\* settings dicts handed to _transaction directly
DirectSettings ==
  {[PAYPAL_PAYFLOW_VENDOR_ID |-> <<"sv">>, PAYPAL_PAYFLOW_PASSWORD |-> <<"sp">>,
    PAYPAL_PAYFLOW_USER |-> <<"sv">>, PAYPAL_PAYFLOW_PARTNER |-> <<"PayPal">>,
    PAYPAL_PAYFLOW_CURRENCY |-> <<"USD">>, PAYPAL_PAYFLOW_PRODUCTION_MODE |-> m] :
     m \in BOOLEAN}

\* --------------------------------------------------------------- transport
\* the order in which params.items() yields the fields (one fixed order
\* stands for the dict's iteration order)
FieldOrder ==
  <<"VENDOR", "PWD", "USER", "PARTNER", "CURRENCY", "TRXTYPE", "TENDER", "AMT",
    "ACCT", "CVV2", "EXPDATE", "ORIGID", "COMMENT1", "COMMENT2", "FIRSTNAME",
    "LASTNAME", "STREET", "CITY", "STATE", "ZIP", "BILLTOCOUNTRY", "EMAIL",
    "PHONENUM">>

\* params.items(), each key as a text
Items(d) ==
  LET keys == SelectSeq(FieldOrder, LAMBDA k : k \in DOMAIN d)
  IN [i \in DOMAIN keys |-> << <<keys[i]>>, d[keys[i]] >>]

\* the payload post builds from params
Encode(d) == EncodeItems(Items(d))

\* as with "num_tries -= 1" after a response
TriesAfterResponse_m(n) == n - 1

\* one call of requests.post: what was sent, when, and when it ended
PostCall(sent, from, until) == [payload |-> sent, sent |-> from, ended |-> until]

\* num_tries after requests.post returned a response
TriesAfterResponse(n) == 0

\* "response.status_code != requests.codes.ok"
StatusFailed(status) == status # HttpOk

\* as with the request and the response stored under each other's key
WithAudit_m(decoded, request, content, elapsed) ==
  [k \in DOMAIN decoded \cup {<<"_raw_request">>, <<"_raw_response">>, <<"_response_time">>} |->
     IF k = <<"_raw_request">> THEN content
     ELSE IF k = <<"_raw_response">> THEN request
     ELSE IF k = <<"_response_time">> THEN elapsed
     ELSE decoded[k]]

\* the audit entries post adds to the decoded pairs
WithAudit(decoded, request, content, elapsed) ==
  [k \in DOMAIN decoded \cup {<<"_raw_request">>, <<"_raw_response">>, <<"_response_time">>} |->
     IF k = <<"_raw_request">> THEN request
     ELSE IF k = <<"_raw_response">> THEN content
     ELSE IF k = <<"_response_time">> THEN elapsed
     ELSE decoded[k]]

\* pairs.get(key, None)
PairsGet(key) == IF <<key>> \in DOMAIN pairs THEN pairs[<<key>>] ELSE None

LogEntry(logger, level, msg, data) ==
  [logger |-> logger, level |-> level, msg |-> msg, data |-> data]

\* -------------------------------------------------------------------- Init
CodecIdle ==
  /\ cpc = "off"
  /\ cfields = <<>>
  /\ cpayload = <<>>
  /\ cdecoded = NoPairs

\* the threads of execution that call post at the same time
Callers == {"c1", "c2"}

\* the locals of a call of post that has not begun
NoFrame == [start_time |-> 0, num_tries |-> 0, response |-> NoResponse]

\* a caller before its call: the POSTs it issued, those that raised, those
\* that were answered, when it called and returned, and what it got
IdleCaller ==
  [pc |-> "idle", posts |-> 0, excs |-> 0, answers |-> 0, entered |-> 0,
   ended |-> 0, err |-> NoErr, response_time |-> 0]

ConcIdle ==
  /\ frames = [c \in Callers |-> NoFrame]
  /\ callers = [c \in Callers |-> IdleCaller]

CallIdle ==
  /\ op = "none"
  /\ args = NoArgs
  /\ kwargs = NoDict
  /\ extra_params = NoDict
  /\ settings_params = NoDict
  /\ params = NoDict
  /\ url = None
  /\ payload = None
  /\ start_time = 0
  /\ num_tries = 0
  /\ response = NoResponse
  /\ pairs = NoPairs
  /\ err = NoErr
  /\ log = <<>>
  /\ captured = 0
  /\ posts = <<>>
  /\ excs = 0
  /\ now = 0

Init ==
  /\ settings \in SettingsChoices
  /\ records \in {<<>>, <<PriorRecord>>}
  /\ pc = "idle"
  /\ CallIdle
  /\ CodecIdle
  /\ ConcIdle

\* ------------------------------------------------------------ the operations
Enter(name, a, kw) ==
  /\ pc = "idle"
  /\ op' = name
  /\ args' = a
  /\ kwargs' = kw
  /\ pc' = "build"
  /\ UNCHANGED <<settings, extra_params, settings_params, params, url, payload,
                 start_time, num_tries, response, pairs, err, log, captured,
                 posts, excs, records, now>>
  /\ UNCHANGED codecVars
  /\ UNCHANGED concVars

\* authorize(order_number, card_number, cvv, expiry_date, amt, **kwargs)
Authorize == \E a \in CardArgs, kw \in KwargsChoices : Enter("authorize", a, kw)

\* sale(order_number, card_number, cvv, expiry_date, amt, **kwargs)
Sale == \E a \in CardArgs, kw \in KwargsChoices : Enter("sale", a, kw)

\* delayed_capture(order_number, pnref, amt=None, **kwargs)
DelayedCapture ==
  \E a \in OriginArgs(Amounts \cup {NoAmt}), kw \in KwargsChoices :
    Enter("delayed_capture", a, kw)

\* reference_transaction(order_number, pnref, amt, **kwargs)
ReferenceTransaction ==
  \E a \in OriginArgs(Amounts), kw \in KwargsChoices :
    Enter("reference_transaction", a, kw)

\* credit(order_number, pnref, amt=None, **kwargs)
Credit ==
  \E a \in OriginArgs(Amounts \cup {NoAmt}), kw \in KwargsChoices :
    Enter("credit", a, kw)

\* void(order_number, pnref, **kwargs)
Void == \E a \in VoidArgs, kw \in KwargsChoices : Enter("void", a, kw)

\* the operation assembles its params dict (the first statement of each)
BuildParams ==
  /\ pc = "build"
  /\ extra_params' = BuiltParams
  /\ pc' = "settings"
  /\ UNCHANGED <<settings, op, args, kwargs, settings_params, params, url,
                 payload, start_time, num_tries, response, pairs, err, log,
                 captured, posts, excs, records, now>>
  /\ UNCHANGED codecVars
  /\ UNCHANGED concVars

\* _settings_params(**kwargs), evaluated as the argument of _transaction
SettingsParams ==
  /\ pc = "settings"
  /\ LET sp == ResolvedSettings
         undefined == SelectSeq(RequiredSettings, LAMBDA name : ~IsDefined(sp[name]))
     IN IF undefined # <<>>
        THEN /\ err' = [type |-> "ImproperlyConfigured", setting |-> Head(undefined)]
             /\ pc' = "done"
             /\ UNCHANGED settings_params
        ELSE /\ settings_params' = sp
             /\ pc' = "validate"
             /\ UNCHANGED err
  /\ UNCHANGED <<settings, op, args, kwargs, extra_params, params, url, payload,
                 start_time, num_tries, response, pairs, log, captured, posts,
                 excs, records, now>>
  /\ UNCHANGED codecVars
  /\ UNCHANGED concVars

\* _transaction(extra_params, settings_params) called by itself
Transaction ==
  /\ pc = "idle"
  /\ \E fields \in DirectFieldSets, sp \in DirectSettings :
       /\ extra_params' = fields
       /\ settings_params' = sp
  /\ op' = "_transaction"
  /\ pc' = "validate"
  /\ UNCHANGED <<settings, args, kwargs, params, url, payload, start_time,
                 num_tries, response, pairs, err, log, captured, posts, excs,
                 records, now>>
  /\ UNCHANGED codecVars
  /\ UNCHANGED concVars

\* _transaction, the checks before anything is assembled
Validate ==
  /\ pc = "validate"
  /\ IF "TRXTYPE" \notin DOMAIN extra_params
     THEN /\ err' = [type |-> "RuntimeError", key |-> "TRXTYPE", trxtype |-> None]
          /\ pc' = "done"
     ELSE IF MissingKeys(extra_params) # <<>>
     THEN /\ err' = [type |-> "RuntimeError", key |-> Head(MissingKeys(extra_params)),
                     trxtype |-> extra_params.TRXTYPE]
          /\ pc' = "done"
     ELSE /\ pc' = "prepare"
          /\ UNCHANGED err
  /\ UNCHANGED <<settings, op, args, kwargs, extra_params, settings_params,
                 params, url, payload, start_time, num_tries, response, pairs,
                 log, captured, posts, excs, records, now>>
  /\ UNCHANGED codecVars
  /\ UNCHANGED concVars

\* the credentials _transaction puts under the caller's fields
Credentials ==
  [VENDOR |-> settings_params.PAYPAL_PAYFLOW_VENDOR_ID,
   PWD |-> settings_params.PAYPAL_PAYFLOW_PASSWORD,
   USER |-> settings_params.PAYPAL_PAYFLOW_USER,
   PARTNER |-> settings_params.PAYPAL_PAYFLOW_PARTNER,
   CURRENCY |-> settings_params.PAYPAL_PAYFLOW_CURRENCY]

\* the params _transaction submits: credentials, the caller's fields over
\* them, and the amount formatted
SubmittedParams ==
  LET merged == Update(Credentials, extra_params)
  IN IF "AMT" \in DOMAIN merged
     THEN [merged EXCEPT !["AMT"] = FormatAmt(merged["AMT"])]
     ELSE merged

\* the endpoint for the mode
Endpoint(production) ==
  IF production THEN <<"https://payflowpro.paypal.com">>
  ELSE <<"https://pilot-payflowpro.paypal.com">>

\* _transaction, from the credentials to the call of gateway.post
Prepare ==
  /\ pc = "prepare"
  /\ params' = SubmittedParams
  /\ url' = Endpoint(settings_params.PAYPAL_PAYFLOW_PRODUCTION_MODE)
  /\ log' = Append(log, LogEntry("paypal.payflow", "info", "Performing transaction",
                                 extra_params.TRXTYPE))
  /\ pc' = "post"
  /\ UNCHANGED <<settings, op, args, kwargs, extra_params, settings_params,
                 payload, start_time, num_tries, response, pairs, err, captured,
                 posts, excs, records, now>>
  /\ UNCHANGED codecVars
  /\ UNCHANGED concVars

\* post, up to the loop: the payload, the start time, the attempts
PostBegin ==
  /\ pc = "post"
  /\ payload' = Encode(params)
  /\ start_time' = now
  /\ num_tries' = NumTries
  /\ pc' = "loop"
  /\ UNCHANGED <<settings, op, args, kwargs, extra_params, settings_params,
                 params, url, response, pairs, err, log, captured, posts, excs,
                 records, now>>
  /\ UNCHANGED codecVars
  /\ UNCHANGED concVars

\* one pass of the loop in which requests.post returns a response
PostResponse ==
  /\ pc = "loop"
  /\ num_tries # 0
  /\ \E answer \in Answers, d \in 1..MaxDelay :
       /\ response' = answer
       /\ now' = now + d
  /\ posts' = Append(posts, PostCall(payload, now, now'))
  /\ num_tries' = TriesAfterResponse(num_tries)
  /\ pc' = IF num_tries' = 0 THEN "status" ELSE "loop"
  /\ UNCHANGED <<settings, op, args, kwargs, extra_params, settings_params,
                 params, url, payload, start_time, pairs, err, log, captured,
                 excs, records>>
  /\ UNCHANGED codecVars
  /\ UNCHANGED concVars

\* as with "start_time = time.time()" inside the loop
StartAfterFailure_m(start, clock) == clock

\* start_time after a pass of the loop that raised: the loop leaves it alone
StartAfterFailure(start, clock) == start

\* whether the except branch reports the exception to raven
CapturesException == TRUE

\* one pass of the loop in which requests.post raises
PostException ==
  /\ pc = "loop"
  /\ num_tries # 0
  /\ \E d \in 1..MaxDelay : now' = now + d
  /\ posts' = Append(posts, PostCall(payload, now, now'))
  /\ excs' = excs + 1
  /\ captured' = IF CapturesException THEN captured + 1 ELSE captured
  /\ num_tries' = num_tries - 1
  /\ IF num_tries' = 0
     THEN /\ log' = Append(log, LogEntry("Cart", "error", "Exception", <<"ConnectionError">>))
          /\ err' = [type |-> "PayPalError"]
          /\ pc' = "done"
     ELSE /\ log' = log \o <<LogEntry("Cart", "error", "Exception", <<"ConnectionError">>),
                            LogEntry("Cart", "info", "Retrying PayPal request.", None)>>
          /\ UNCHANGED <<err, pc>>
  /\ start_time' = StartAfterFailure(start_time, now')
  /\ UNCHANGED <<settings, op, args, kwargs, extra_params, settings_params,
                 params, url, payload, response, pairs, records>>
  /\ UNCHANGED codecVars
  /\ UNCHANGED concVars

\* post, the status check after the loop
PostStatus ==
  /\ pc = "status"
  /\ IF StatusFailed(response.status)
     THEN /\ log' = Append(log, LogEntry("Cart", "error", "HTTP status",
                                         <<ToString(response.status)>>))
          /\ err' = [type |-> "PayPalError"]
          /\ pc' = "done"
     ELSE /\ pc' = "decode"
          /\ UNCHANGED <<log, err>>
  /\ UNCHANGED <<settings, op, args, kwargs, extra_params, settings_params,
                 params, url, payload, start_time, num_tries, response, pairs,
                 captured, posts, excs, records, now>>
  /\ UNCHANGED codecVars
  /\ UNCHANGED concVars

\* as with the factor 1000.0 left out
Elapsed_m(start, clock) == clock - start

\* (time.time() - start_time) * 1000.0
Elapsed(start, clock) == (clock - start) * 1000

\* post, from decoding the body to the return
PostReturn ==
  /\ pc = "decode"
  /\ pairs' = WithAudit(Decode(response.content), payload, response.content,
                        Elapsed(start_time, now))
  /\ pc' = "lograw"
  /\ UNCHANGED <<settings, op, args, kwargs, extra_params, settings_params,
                 params, url, payload, start_time, num_tries, response, err,
                 log, captured, posts, excs, records, now>>
  /\ UNCHANGED codecVars
  /\ UNCHANGED concVars

\* as with the mode check dropped
LogsRaw_m(production) == TRUE

\* whether _transaction writes the raw exchange to the log
LogsRaw(production) == ~production

\* _transaction, the debug logging after post returned
LogRaw ==
  /\ pc = "lograw"
  /\ log' = IF LogsRaw(settings_params.PAYPAL_PAYFLOW_PRODUCTION_MODE)
            THEN log \o <<LogEntry("paypal.payflow", "debug", "Raw request",
                                   pairs[<<"_raw_request">>]),
                          LogEntry("paypal.payflow", "debug", "Raw response",
                                   pairs[<<"_raw_response">>])>>
            ELSE log
  /\ pc' = "create"
  /\ UNCHANGED <<settings, op, args, kwargs, extra_params, settings_params,
                 params, url, payload, start_time, num_tries, response, pairs,
                 err, captured, posts, excs, records, now>>
  /\ UNCHANGED codecVars
  /\ UNCHANGED concVars

\* as with the two gateway references stored under each other's column
NewRecord_m ==
  [comment1 |-> params["COMMENT1"],
   trxtype |-> params["TRXTYPE"],
   tender |-> Get(params, "TENDER", None),
   amount |-> Get(params, "AMT", None),
   pnref |-> PairsGet("PPREF"),
   ppref |-> PairsGet("PNREF"),
   cvv2match |-> PairsGet("CVV2MATCH"),
   avsaddr |-> PairsGet("AVSADDR"),
   avszip |-> PairsGet("AVSZIP"),
   result |-> PairsGet("RESULT"),
   respmsg |-> PairsGet("RESPMSG"),
   authcode |-> PairsGet("AUTHCODE"),
   raw_request |-> pairs[<<"_raw_request">>],
   raw_response |-> pairs[<<"_raw_response">>],
   response_time |-> pairs[<<"_response_time">>]]

\* the record models.PayflowTransaction.objects.create is given
NewRecord ==
  [comment1 |-> params["COMMENT1"],
   trxtype |-> params["TRXTYPE"],
   tender |-> Get(params, "TENDER", None),
   amount |-> Get(params, "AMT", None),
   pnref |-> PairsGet("PNREF"),
   ppref |-> PairsGet("PPREF"),
   cvv2match |-> PairsGet("CVV2MATCH"),
   avsaddr |-> PairsGet("AVSADDR"),
   avszip |-> PairsGet("AVSZIP"),
   result |-> PairsGet("RESULT"),
   respmsg |-> PairsGet("RESPMSG"),
   authcode |-> PairsGet("AUTHCODE"),
   raw_request |-> pairs[<<"_raw_request">>],
   raw_response |-> pairs[<<"_raw_response">>],
   response_time |-> pairs[<<"_response_time">>]]

\* as with the record written over the table's rows
Created_m(table, record) == [i \in DOMAIN table |-> record]

\* the table after objects.create(record)
Created(table, record) == Append(table, record)

\* _transaction, the creation of the PayflowTransaction
Create ==
  /\ pc = "create"
  /\ IF "COMMENT1" \notin DOMAIN params
     THEN /\ err' = [type |-> "KeyError", key |-> "COMMENT1"]
          /\ UNCHANGED records
     ELSE /\ records' = Created(records, NewRecord)
          /\ UNCHANGED err
  /\ pc' = "done"
  /\ UNCHANGED <<settings, op, args, kwargs, extra_params, settings_params,
                 params, url, payload, start_time, num_tries, response, pairs,
                 log, captured, posts, excs, now>>
  /\ UNCHANGED codecVars
  /\ UNCHANGED concVars

Next ==
  \/ Authorize
  \/ Sale
  \/ DelayedCapture
  \/ ReferenceTransaction
  \/ Credit
  \/ Void
  \/ Transaction
  \/ BuildParams
  \/ SettingsParams
  \/ Validate
  \/ Prepare
  \/ PostBegin
  \/ PostResponse
  \/ PostException
  \/ PostStatus
  \/ PostReturn
  \/ LogRaw
  \/ Create

Spec == Init /\ [][Next]_vars

\* ------------------------------------------------------ the codec by itself
\* The round trip of a field set through the encoding of post and the
\* decoding of post, on field sets of up to two fields.
Alphabet == {"a", "4", "&", "=", ";", "+", "%"}
Texts(n) == UNION {[1..m -> Alphabet] : m \in 0..n}
CodecKeys == {<<"a">>, <<"4">>, <<"+">>, <<" ">>, <<"=">>}

RECURSIVE ValueLength(_)
ValueLength(items) ==
  IF items = <<>> THEN 0 ELSE Len(items[1][2]) + ValueLength(Tail(items))

InitCodec ==
  /\ settings = NoDict
  /\ records = <<>>
  /\ pc = "off"
  /\ CallIdle
  /\ cpc = "fields"
  /\ cfields = <<>>
  /\ cpayload = <<>>
  /\ cdecoded = NoPairs
  /\ ConcIdle

\* one more field in the dict handed to post
AddField ==
  /\ cpc = "fields"
  /\ Len(cfields) < 2
  /\ \E k \in CodecKeys, v \in Texts(MaxValLen - ValueLength(cfields)) :
       /\ \A i \in DOMAIN cfields : cfields[i][1] # k
       /\ cfields' = Append(cfields, <<k, v>>)
  /\ UNCHANGED <<cpc, cpayload, cdecoded>>
  /\ UNCHANGED callVars
  /\ UNCHANGED concVars

\* post, line 24: the payload of the field set
CodecEncode ==
  /\ cpc = "fields"
  /\ cpayload' = EncodeItems(cfields)
  /\ cpc' = "encoded"
  /\ UNCHANGED <<cfields, cdecoded>>
  /\ UNCHANGED callVars
  /\ UNCHANGED concVars

\* post, lines 49-51: the pairs of a body that is this payload
CodecDecode ==
  /\ cpc = "encoded"
  /\ cdecoded' = Decode(cpayload)
  /\ cpc' = "decoded"
  /\ UNCHANGED <<cfields, cpayload>>
  /\ UNCHANGED callVars
  /\ UNCHANGED concVars

NextCodec ==
  \/ AddField
  \/ CodecEncode
  \/ CodecDecode

SpecCodec == InitCodec /\ [][NextCodec]_vars

\* --------------------------------------------------- decoding by itself
\* The decoding of post applied to a response body of key=value pairs
\* joined with "&", keys repeated and values blank included.
BodyKeys == {<<"RESULT">>, <<"RESPMSG">>, <<"PNREF">>}
BodyValues == {<<>>, <<"0">>, <<"Approved">>, <<"ABC123">>}

InitDecode ==
  /\ settings = NoDict
  /\ records = <<>>
  /\ pc = "off"
  /\ CallIdle
  /\ cpc = "pieces"
  /\ cfields = <<>>
  /\ cpayload = <<>>
  /\ cdecoded = NoPairs
  /\ ConcIdle

\* one more key=value pair in the body the gateway answers with
AddPiece ==
  /\ cpc = "pieces"
  /\ Len(cfields) < MaxPieces
  /\ \E k \in BodyKeys, v \in BodyValues : cfields' = Append(cfields, <<k, v>>)
  /\ UNCHANGED <<cpc, cpayload, cdecoded>>
  /\ UNCHANGED callVars
  /\ UNCHANGED concVars

\* response.content: the pairs on the wire
ReceiveBody ==
  /\ cpc = "pieces"
  /\ cpayload' = EncodeItems(cfields)
  /\ cpc' = "encoded"
  /\ UNCHANGED <<cfields, cdecoded>>
  /\ UNCHANGED callVars
  /\ UNCHANGED concVars

NextDecode ==
  \/ AddPiece
  \/ ReceiveBody
  \/ CodecDecode

SpecDecode == InitDecode /\ [][NextDecode]_vars

\* ------------------------------------------------- post called concurrently
\* Two callers inside post at the same time. What post keeps between its
\* lines (start_time, num_tries, response) are locals of the call; the
\* clock is the one thing the calls share.

\* as with start_time and num_tries kept in one place for all calls
FrameOf_m(c) == "c1"

\* the locals a call of post reads and writes: its own
FrameOf(c) == c

InitConc ==
  /\ settings = NoDict
  /\ records = <<>>
  /\ pc = "off"
  /\ CallIdle
  /\ CodecIdle
  /\ ConcIdle

\* post, up to the loop
ConcBegin(c) ==
  /\ callers[c].pc = "idle"
  /\ frames' = [frames EXCEPT ![FrameOf(c)] =
                  [start_time |-> now, num_tries |-> NumTries, response |-> NoResponse]]
  /\ callers' = [callers EXCEPT ![c].pc = "loop", ![c].entered = now]
  /\ UNCHANGED callVars
  /\ UNCHANGED codecVars

\* one pass of the loop in which requests.post returns a response
ConcResponse(c) ==
  /\ callers[c].pc = "loop"
  /\ frames[FrameOf(c)].num_tries # 0
  /\ \E answer \in Answers :
       frames' = [frames EXCEPT
                    ![FrameOf(c)].response = answer,
                    ![FrameOf(c)].num_tries = TriesAfterResponse(@)]
  /\ callers' = [callers EXCEPT
                   ![c].posts = @ + 1,
                   ![c].answers = @ + 1,
                   ![c].pc = IF frames'[FrameOf(c)].num_tries = 0 THEN "status" ELSE "loop"]
  /\ UNCHANGED callVars
  /\ UNCHANGED codecVars

\* one pass of the loop in which requests.post raises
ConcException(c) ==
  /\ callers[c].pc = "loop"
  /\ frames[FrameOf(c)].num_tries # 0
  /\ frames' = [frames EXCEPT
                  ![FrameOf(c)].num_tries = @ - 1,
                  ![FrameOf(c)].start_time = StartAfterFailure(@, now)]
  /\ callers' = [callers EXCEPT
                   ![c].posts = @ + 1,
                   ![c].excs = @ + 1,
                   ![c].pc = IF frames'[FrameOf(c)].num_tries = 0 THEN "done" ELSE "loop",
                   ![c].err = IF frames'[FrameOf(c)].num_tries = 0
                              THEN [type |-> "PayPalError"] ELSE @,
                   ![c].ended = IF frames'[FrameOf(c)].num_tries = 0 THEN now ELSE @]
  /\ UNCHANGED callVars
  /\ UNCHANGED codecVars

\* post, from the status check to the return
ConcReturn(c) ==
  /\ callers[c].pc = "status"
  /\ callers' = [callers EXCEPT
                   ![c].pc = "done",
                   ![c].ended = now,
                   ![c].err = IF StatusFailed(frames[FrameOf(c)].response.status)
                              THEN [type |-> "PayPalError"] ELSE @,
                   ![c].response_time =
                     IF StatusFailed(frames[FrameOf(c)].response.status) THEN @
                     ELSE Elapsed(frames[FrameOf(c)].start_time, now)]
  /\ UNCHANGED frames
  /\ UNCHANGED callVars
  /\ UNCHANGED codecVars

\* time passes while the calls run
ConcTick ==
  /\ now < MaxDelay
  /\ \E c \in Callers : callers[c].pc # "done"
  /\ now' = now + 1
  /\ UNCHANGED <<settings, pc, op, args, kwargs, extra_params, settings_params,
                 params, url, payload, start_time, num_tries, response, pairs,
                 err, log, captured, posts, excs, records>>
  /\ UNCHANGED codecVars
  /\ UNCHANGED concVars

NextConc ==
  \/ \E c \in Callers : ConcBegin(c)
  \/ \E c \in Callers : ConcResponse(c)
  \/ \E c \in Callers : ConcException(c)
  \/ \E c \in Callers : ConcReturn(c)
  \/ ConcTick

SpecConc == InitConc /\ [][NextConc]_vars

\* ------------------------------------------------------------------ claims
PublicOps ==
  {"authorize", "sale", "delayed_capture", "reference_transaction", "credit", "void"}

\* the invocation is past the credential check of the operation
PastSettings == pc \notin {"idle", "off", "build", "settings"}

\* _transaction has run its checks on the field set
Validated ==
  \/ pc \in {"prepare", "post", "loop", "status", "decode", "lograw", "create"}
  \/ pc = "done" /\ err.type # "ImproperlyConfigured"

\* records created by this invocation
CreatedCount ==
  Len(records) - (IF records # <<>> /\ records[1] = PriorRecord THEN 1 ELSE 0)

\* the value the caller's override or else the configured setting gives
Resolved(name) ==
  IF Lower(name) \in DOMAIN kwargs THEN kwargs[Lower(name)]
  ELSE IF name \in DOMAIN settings THEN settings[name]
  ELSE None

\* C1: when every attempt of a post call raised, exactly 3 POSTs were issued
\* and the call failed with PayPalError; when an attempt returned a response
\* with a non-success status the call fails with PayPalError, and no POST is
\* issued once a response has been returned.
C1_RetryThenFail ==
  /\ [](/\ (pc = "done" /\ posts # <<>> /\ excs = Len(posts))
             => (Len(posts) = 3 /\ err.type = "PayPalError")
        /\ (pc = "done" /\ response.status \notin {0, HttpOk})
             => (err.type = "PayPalError" /\ Len(posts) = excs + 1))
  /\ [][response # NoResponse => posts' = posts]_vars

C1_Witness ==
  pc = "done" /\ excs = 3 /\ Len(posts) = 3 /\ err.type = "PayPalError"

\* the mandatory fields the specification lists for each kind
ClaimedMandatory(kind) ==
  CASE kind = AUTHORIZATION -> {"ACCT", "AMT", "EXPDATE"}
    [] kind = SALE -> {"AMT"}
    [] kind \in {DELAYED_CAPTURE, CREDIT, VOID} -> {"ORIGID"}

\* C2: once _transaction has checked a field set of some kind: if mandatory
\* fields of the kind are absent the call has failed with the validation
\* error naming an absent field (the absent field, when it is the only one)
\* and the kind, and nothing was posted; if none is absent there is no
\* validation error and the call does not end without a POST.
C2_Validation ==
  (Validated /\ IsSet(extra_params) /\ "TRXTYPE" \in DOMAIN extra_params) =>
    LET kind == extra_params.TRXTYPE
        absent == ClaimedMandatory(kind) \ DOMAIN extra_params
    IN /\ absent # {} =>
            /\ pc = "done"
            /\ err.type = "RuntimeError"
            /\ err.key \in absent
            /\ err.trxtype = kind
            /\ posts = <<>>
       /\ absent = {} =>
            /\ err.type # "RuntimeError"
            /\ pc = "done" => posts # <<>>

C2_Witness ==
  /\ pc = "done"
  /\ op = "_transaction"
  /\ err.type = "RuntimeError"
  /\ err.key = "EXPDATE"
  /\ err.trxtype = AUTHORIZATION
  /\ DOMAIN extra_params = {"TRXTYPE", "ACCT", "AMT", "COMMENT1"}

\* C3: void with an empty origin reference and valid credentials fails with
\* the validation error and posts nothing.
C3_VoidEmptyOriginRejected ==
  (op = "void" /\ args.pnref = Empty /\ pc = "done"
     /\ err.type # "ImproperlyConfigured")
    => (err.type = "RuntimeError" /\ posts = <<>>)

\* C4: in every public operation, when the resolved vendor id or the
\* resolved password is absent or empty, the call has failed with
\* ImproperlyConfigured, nothing was posted, no attempt was made and no
\* record was created.
C4_ConfigurationError ==
  (op \in PublicOps /\ PastSettings
     /\ (Resolved("PAYPAL_PAYFLOW_VENDOR_ID") \in {None, Empty}
           \/ Resolved("PAYPAL_PAYFLOW_PASSWORD") \in {None, Empty}))
    => /\ pc = "done"
       /\ err.type = "ImproperlyConfigured"
       /\ posts = <<>>
       /\ excs = 0
       /\ num_tries = 0
       /\ CreatedCount = 0

C4_Witness ==
  /\ pc = "done"
  /\ op = "credit"
  /\ err.type = "ImproperlyConfigured"
  /\ err.setting = "PAYPAL_PAYFLOW_PASSWORD"
  /\ Resolved("PAYPAL_PAYFLOW_VENDOR_ID") = <<"sv">>
  /\ Resolved("PAYPAL_PAYFLOW_PASSWORD") = Empty

\* C5 as stated: when the configuration error is raised, no field set has
\* been built.
C5_NoFieldSetBuilt ==
  err.type = "ImproperlyConfigured" => ~IsSet(extra_params)

\* C5 as amended: in every public operation, when the resolved vendor id is
\* absent or empty the call fails with ImproperlyConfigured after the
\* operation has assembled its own params mapping and before _transaction is
\* entered: the mapping is never merged with credentials, never encoded and
\* never posted.
C5_ErrorBeforeTransaction ==
  (op \in PublicOps /\ PastSettings
     /\ Resolved("PAYPAL_PAYFLOW_VENDOR_ID") \in {None, Empty})
    => /\ err.type = "ImproperlyConfigured"
       /\ err.setting = "PAYPAL_PAYFLOW_VENDOR_ID"
       /\ IsSet(extra_params)
       /\ ~IsSet(settings_params)
       /\ ~IsSet(params)
       /\ payload = None
       /\ log = <<>>

C5_Witness ==
  /\ op = "sale"
  /\ err.type = "ImproperlyConfigured"
  /\ err.setting = "PAYPAL_PAYFLOW_VENDOR_ID"
  /\ "PAYPAL_PAYFLOW_VENDOR_ID" \notin DOMAIN settings
  /\ "paypal_payflow_vendor_id" \notin DOMAIN kwargs
  /\ extra_params.ACCT = <<"4111">>

\* C6: an invocation of a public operation creates at most one record, has
\* created exactly one when it ends if and only if the transport returned a
\* response with the success status, has created none when it ends in
\* ImproperlyConfigured, RuntimeError or PayPalError; and no step changes or
\* removes a record the table already holds.
C6_OneRecordPerSuccess ==
  /\ [](op \in PublicOps =>
          /\ CreatedCount \in {0, 1}
          /\ pc = "done" => (CreatedCount = 1 <=> response.status = HttpOk)
          /\ err.type \in {"ImproperlyConfigured", "RuntimeError", "PayPalError"}
               => CreatedCount = 0)
  /\ [][/\ Len(records') >= Len(records)
        /\ \A i \in DOMAIN records : records'[i] = records[i]]_vars

C6_Witness ==
  /\ pc = "done"
  /\ op = "reference_transaction"
  /\ Len(records) = 2
  /\ records[1] = PriorRecord
  /\ records[2].trxtype = SALE
  /\ excs = 1

\* C7: an AMT field in the submitted params is the caller's amount as a text
\* with exactly two decimals, the nearest hundredth of the amount; 10 is
\* submitted as 10.00 and 10.005 as 10.01.
C7_AmountTwoDecimals ==
  (IsSet(params) /\ "AMT" \in DOMAIN params) =>
    LET amt == extra_params["AMT"]
    IN /\ \E c \in 0..(amt \div 10 + 1) :
            /\ 10 * c - amt \in -5..5
            /\ params["AMT"] = <<ToString(c \div 100), ".",
                                 ToString((c % 100) \div 10), ToString(c % 10)>>
       /\ amt = 10000 => params["AMT"] = <<"10", ".", "0", "0">>
       /\ amt = 10005 => params["AMT"] = <<"10", ".", "0", "1">>

C7_Witness ==
  /\ posts # <<>>
  /\ op = "authorize"
  /\ args.amt = 10005
  /\ params["AMT"] = <<"10", ".", "0", "1">>

\* C8: when post has failed with PayPalError, every exception requests.post
\* raised and the non-success status, if that is what failed, were each
\* reported with captureException.
C8_EveryFailureCaptured ==
  err.type = "PayPalError" =>
    captured = excs + (IF response.status \notin {0, HttpOk} THEN 1 ELSE 0)

\* an entry that carries the raw request or the raw response
IsRaw(entry) ==
  \/ entry.data = payload /\ payload # None
  \/ entry.data = response.content /\ response # NoResponse

\* C9: no log entry carries the raw request or the raw response in
\* production mode; outside production mode one does only after post has
\* returned from a response with the success status.
C9_RawLogging ==
  \A i \in DOMAIN log :
    IsRaw(log[i]) =>
      /\ ~settings_params.PAYPAL_PAYFLOW_PRODUCTION_MODE
      /\ response.status = HttpOk
      /\ pc \in {"create", "done"}
      /\ IsSet(params) /\ pairs # NoPairs

C9_Witness ==
  /\ pc = "done"
  /\ IsSet(settings_params)
  /\ settings_params.PAYPAL_PAYFLOW_PRODUCTION_MODE
  /\ excs = 2
  /\ response.status = HttpOk
  /\ CreatedCount = 1
  /\ Len(log) = 5

\* the field set as a mapping
FieldsMap(items) ==
  [k \in {items[i][1] : i \in DOMAIN items} |->
     items[CHOOSE i \in DOMAIN items : items[i][1] = k][2]]

\* no key and no value of the field set holds one of the characters
Without(items, chars) ==
  \A i \in DOMAIN items :
    /\ \A j \in DOMAIN items[i][1] : items[i][1][j] \notin chars
    /\ \A j \in DOMAIN items[i][2] : items[i][2][j] \notin chars

\* C10 as stated: a field set without '&' and '=' decodes from its encoding
\* to the same mapping, empty values included.
C10_RoundTrip ==
  (cpc = "decoded" /\ Without(cfields, {"&", "="}))
    => cdecoded = FieldsMap(cfields)

\* C10 as amended: a field set whose keys and values hold none of '&', '=',
\* ';', '+', '%' decodes from its encoding to the mapping of its fields with
\* a non-empty value, each with its original value; a field whose value is
\* empty is absent from the decoded mapping.
C10_RoundTripNonEmpty ==
  (cpc = "decoded" /\ Without(cfields, {"&", "=", ";", "+", "%"}))
    => cdecoded = FieldsMap(SelectSeq(cfields, LAMBDA it : it[2] # <<>>))

C10_Witness ==
  /\ cpc = "decoded"
  /\ Len(cfields) = 2
  /\ Without(cfields, {"&", "=", ";", "+", "%"})
  /\ cfields[1][2] = <<>>
  /\ cfields[2][2] = <<"a", "4">>
  /\ DOMAIN cdecoded = {cfields[2][1]}


\* the keys of the pairs of a body
KeysOf(items) == {items[i][1] : i \in DOMAIN items}

\* the value of the first pair of the body with the key
FirstValue(items, k) ==
  items[CHOOSE i \in DOMAIN items :
          items[i][1] = k /\ \A h \in 1..(i - 1) : items[h][1] # k][2]

\* C11 as stated: the decoded mapping has exactly the keys occurring in the
\* body, each with the value of its first occurrence.
C11_FirstOccurrence ==
  cpc = "decoded" =>
    /\ DOMAIN cdecoded = KeysOf(cfields)
    /\ \A k \in KeysOf(cfields) : cdecoded[k] = FirstValue(cfields, k)

\* C11 as amended: the decoded mapping has exactly the keys that occur in
\* the body with a non-empty value, each with the value of its first
\* occurrence that has a non-empty value; RESULT=0&RESPMSG=Approved&PNREF=ABC123
\* gives exactly RESULT 0, RESPMSG Approved, PNREF ABC123.
C11_FirstNonEmptyOccurrence ==
  cpc = "decoded" =>
    LET filled == SelectSeq(cfields, LAMBDA it : it[2] # <<>>)
    IN /\ DOMAIN cdecoded = KeysOf(filled)
       /\ \A k \in KeysOf(filled) : cdecoded[k] = FirstValue(filled, k)
       /\ cfields = << <<<<"RESULT">>, <<"0">>>>, <<<<"RESPMSG">>, <<"Approved">>>>,
                       <<<<"PNREF">>, <<"ABC123">>>> >>
            => /\ DOMAIN cdecoded = {<<"RESULT">>, <<"RESPMSG">>, <<"PNREF">>}
               /\ cdecoded[<<"RESULT">>] = <<"0">>
               /\ cdecoded[<<"RESPMSG">>] = <<"Approved">>
               /\ cdecoded[<<"PNREF">>] = <<"ABC123">>

C11_Witness ==
  /\ cpc = "decoded"
  /\ cfields = << <<<<"RESULT">>, <<"0">>>>, <<<<"PNREF">>, <<>>>>,
                  <<<<"RESULT">>, <<"ABC123">>>> >>
  /\ DOMAIN cdecoded = {<<"RESULT">>}
  /\ cdecoded[<<"RESULT">>] = <<"0">>


\* the record this invocation created
LastRecord == records[Len(records)]

\* C12: the raw request of the record an invocation created is the payload
\* of the POST that was answered, its raw response is the body of that
\* answer, and every POST of the invocation carried the same payload.
C12_RawExchange ==
  /\ \A i \in DOMAIN posts : posts[i].payload = posts[1].payload
  /\ (pc = "done" /\ CreatedCount = 1) =>
       /\ LastRecord.raw_request = posts[Len(posts)].payload
       /\ LastRecord.raw_request = Encode(params)
       /\ LastRecord.raw_response = response.content
       /\ Len(posts) = excs + 1

C12_Witness ==
  /\ pc = "done"
  /\ CreatedCount = 1
  /\ excs = 2
  /\ Len(posts) = 3
  /\ LastRecord.raw_response =
       <<"RESULT", "=", "0", "&", "RESPMSG", "=", "Approved", "&", "PNREF", "=", "ABC123">>
  /\ LastRecord.raw_request = posts[3].payload


\* post has returned to _transaction
Returned == pc \in {"lograw", "create", "done"} /\ pairs # NoPairs

\* C14: the elapsed time post returns is the time, in milliseconds, from the
\* start of the first attempt to the end of the attempt that was answered,
\* failed attempts included.
C14_ElapsedFromFirstAttempt ==
  Returned =>
    pairs[<<"_response_time">>] = 1000 * (posts[Len(posts)].ended - posts[1].sent)

C14_Witness ==
  /\ Returned
  /\ excs = 2
  /\ posts[3].ended - posts[3].sent = 1
  /\ posts[2].ended - posts[1].sent = 3
  /\ pairs[<<"_response_time">>] = 4000

\* C15 as stated: after failed attempts the elapsed time post returns covers
\* the final attempt only.
C15_ElapsedOfFinalAttempt ==
  (Returned /\ excs >= 1) =>
    pairs[<<"_response_time">>] =
      1000 * (posts[Len(posts)].ended - posts[Len(posts)].sent)

\* C15 as amended: the start time is taken once, before the first attempt,
\* and no retry changes it, so that after failed attempts the elapsed time
\* post returns is the time of the final attempt plus the time spent in the
\* failed attempts before it.
C15_StartTimeKept ==
  /\ [][pc = "loop" => start_time' = start_time]_vars
  /\ []((Returned /\ excs >= 1) =>
          /\ start_time = posts[1].sent
          /\ pairs[<<"_response_time">>] =
               1000 * (posts[Len(posts)].ended - posts[Len(posts)].sent)
               + 1000 * (posts[Len(posts)].sent - posts[1].sent)
          /\ pairs[<<"_response_time">>] >
               1000 * (posts[Len(posts)].ended - posts[Len(posts)].sent))

C15_Witness ==
  /\ Returned
  /\ excs = 1
  /\ start_time = posts[1].sent
  /\ posts[2].sent > start_time
  /\ pairs[<<"_response_time">>] = 1000 * (posts[2].ended - posts[1].sent)
  /\ pc = "done"
  /\ CreatedCount = 1
  /\ LastRecord.response_time = 3000


\* the text of an amount with two decimals, for the amounts the claims name
TwoDecimals(amt) ==
  CASE amt = 0 -> <<"0", ".", "0", "0">>
    [] amt = 10000 -> <<"10", ".", "0", "0">>
    [] amt = 10005 -> <<"10", ".", "0", "1">>
    [] amt = 1005 -> <<"1", ".", "0", "0">>

\* C16: delayed_capture and credit submit an AMT field, the caller's amount
\* with two decimals, exactly when the caller gave an amount, zero included.
C16_AmountWheneverGiven ==
  (op \in {"delayed_capture", "credit"} /\ IsSet(params)) =>
    /\ "AMT" \in DOMAIN params <=> args.amt # NoAmt
    /\ "AMT" \in DOMAIN params => params["AMT"] = TwoDecimals(args.amt)

\* the response fields of a record, by the key of the response they come from
ResponseColumns(record) ==
  [PNREF |-> record.pnref, PPREF |-> record.ppref, CVV2MATCH |-> record.cvv2match,
   AVSADDR |-> record.avsaddr, AVSZIP |-> record.avszip, RESULT |-> record.result,
   RESPMSG |-> record.respmsg, AUTHCODE |-> record.authcode]

\* the kind each public operation submits
KindOf(name) ==
  CASE name = "authorize" -> AUTHORIZATION
    [] name \in {"sale", "reference_transaction"} -> SALE
    [] name = "delayed_capture" -> DELAYED_CAPTURE
    [] name = "credit" -> CREDIT
    [] name = "void" -> VOID

C18_ReferenceIsSale ==
  op = "reference_transaction" =>
    /\ err.type # "RuntimeError"
    /\ IsSet(extra_params) => extra_params.TRXTYPE = SALE
    /\ (PastSettings /\ err.type # "ImproperlyConfigured" /\ pc # "validate")
         => Validated
    /\ IsSet(params) =>
         /\ params["TRXTYPE"] = SALE
         /\ params["TENDER"] = BANKCARD
         /\ params["ORIGID"] = args.pnref
         /\ params["AMT"] = TwoDecimals(args.amt)
    /\ (pc = "done" /\ CreatedCount = 1) => LastRecord.trxtype = SALE

C18_Witness ==
  /\ op = "reference_transaction"
  /\ pc = "done"
  /\ CreatedCount = 1
  /\ args.pnref = Empty
  /\ params["ORIGID"] = Empty
  /\ LastRecord.trxtype = SALE
  /\ LastRecord.tender = BANKCARD
  /\ LastRecord.amount = <<"10", ".", "0", "1">>

\* C19: a call of post issues at most 3 POSTs; a POST is issued only while
\* no response has been returned, every earlier POST of the call raised and
\* fewer than 3 were issued; once a response is there the POSTs stay as they
\* are.
C19_BoundedRetry ==
  /\ [](Len(posts) <= 3 /\ excs <= Len(posts))
  /\ [][posts' # posts =>
          /\ Len(posts') = Len(posts) + 1
          /\ response = NoResponse
          /\ excs = Len(posts)
          /\ Len(posts) < 3
          /\ num_tries = 3 - excs]_vars
  /\ [][response' # NoResponse => (posts' = posts \/ response = NoResponse)]_vars

C19_Witness ==
  /\ Len(posts) = 3
  /\ excs = 2
  /\ response.status = 500
  /\ pc = "done"
  /\ err.type = "PayPalError"

\* the default each setting has when neither the caller nor the
\* configuration gives it
ClaimedDefault(name) ==
  CASE name = "PAYPAL_PAYFLOW_USER" -> Resolved("PAYPAL_PAYFLOW_VENDOR_ID")
    [] name = "PAYPAL_PAYFLOW_PARTNER" -> <<"PayPal">>
    [] name = "PAYPAL_PAYFLOW_CURRENCY" -> <<"USD">>
    [] name = "PAYPAL_PAYFLOW_PRODUCTION_MODE" -> FALSE
    [] OTHER -> None

\* the caller's value, else the configured one, else the default
ClaimedSetting(name) ==
  IF Lower(name) \in DOMAIN kwargs THEN kwargs[Lower(name)]
  ELSE IF name \in DOMAIN settings THEN settings[name]
  ELSE ClaimedDefault(name)

\* C20: in every public operation each setting is the caller's keyword
\* argument if given, else the configured setting, else its default (the
\* resolved vendor id for USER, PayPal, USD, not production); the submitted
\* VENDOR, PWD, USER, PARTNER and CURRENCY are these values and the endpoint
\* is the production one exactly in production mode.
C20_SettingsResolution ==
  (op \in PublicOps /\ IsSet(params)) =>
    /\ params["VENDOR"] = ClaimedSetting("PAYPAL_PAYFLOW_VENDOR_ID")
    /\ params["PWD"] = ClaimedSetting("PAYPAL_PAYFLOW_PASSWORD")
    /\ params["USER"] = ClaimedSetting("PAYPAL_PAYFLOW_USER")
    /\ params["PARTNER"] = ClaimedSetting("PAYPAL_PAYFLOW_PARTNER")
    /\ params["CURRENCY"] = ClaimedSetting("PAYPAL_PAYFLOW_CURRENCY")
    /\ url = (IF ClaimedSetting("PAYPAL_PAYFLOW_PRODUCTION_MODE")
              THEN <<"https://payflowpro.paypal.com">>
              ELSE <<"https://pilot-payflowpro.paypal.com">>)

C20_Witness ==
  /\ op = "sale"
  /\ posts # <<>>
  /\ settings = [PAYPAL_PAYFLOW_VENDOR_ID |-> <<"sv">>, PAYPAL_PAYFLOW_PASSWORD |-> <<"sp">>]
  /\ params["VENDOR"] = <<"kv">>
  /\ params["USER"] = <<"kv">>
  /\ params["PWD"] = <<"sp">>
  /\ params["PARTNER"] = <<"PayPal">>
  /\ params["CURRENCY"] = <<"USD">>
  /\ url = <<"https://pilot-payflowpro.paypal.com">>


\* C13: with two calls of post running at the same time, under every
\* interleaving each call issues at most 3 POSTs, the attempts a call has
\* left in its loop are 3 less the POSTs of its own that raised, whatever
\* the other call went through, a call ends in the transport error without
\* an answer only after 3 POSTs of its own raised, and the time a call
\* reports is counted from its own entry.
C13_OwnCounterAndTimer ==
  \A c \in Callers :
    /\ callers[c].posts <= 3
    /\ callers[c].posts = callers[c].excs + callers[c].answers
    /\ callers[c].pc = "loop" =>
         /\ frames[c].num_tries = 3 - callers[c].excs
         /\ frames[c].num_tries > 0
         /\ frames[c].start_time = callers[c].entered
    /\ callers[c].pc = "status" => callers[c].answers = 1
    /\ callers[c].pc = "done" =>
         \/ /\ callers[c].err = [type |-> "PayPalError"]
            /\ callers[c].answers = 0
            /\ callers[c].excs = 3
         \/ /\ callers[c].err = [type |-> "PayPalError"]
            /\ callers[c].answers = 1
            /\ frames[c].response.status # HttpOk
         \/ /\ callers[c].err = NoErr
            /\ callers[c].answers = 1
            /\ frames[c].response.status = HttpOk
            /\ callers[c].response_time =
                 1000 * (callers[c].ended - callers[c].entered)

\* one call failed on its 3 POSTs while the other, begun later, was
\* answered on its second
C13_Witness ==
  /\ callers["c1"].pc = "done"
  /\ callers["c1"].excs = 3
  /\ callers["c1"].err = [type |-> "PayPalError"]
  /\ callers["c2"].pc = "done"
  /\ callers["c2"].excs = 1
  /\ callers["c2"].posts = 2
  /\ callers["c2"].err = NoErr
  /\ callers["c2"].entered = 1
  /\ callers["c2"].response_time = 1000

====
